---- MODULE Spec2Model ----
(***************************************************************************)
(* Model of src/app.py: the Flask handlers transcribe_audio and            *)
(* transcribe_with_timestamps, the helpers convert_to_wav and              *)
(* safe_delete_file, the recognition callbacks each handler registers, and *)
(* the temp files they create and delete.                                  *)
(*                                                                         *)
(* Each request runs on its own thread (app.run(threaded=True)); the       *)
(* recognition engine calls the callbacks on a thread of its own while the *)
(* session is started and not yet stopped.  Strings are TLA+ strings,      *)
(* Python's None is the string "None", a path is the tuple of the parts of *)
(* its name and the path None is the empty tuple.                          *)
(***************************************************************************)
EXTENDS Integers, Sequences, FiniteSets, TLC

\* ---------------------------------------------------------------- bounds
MaxSegments == 2        \* final segments the engine delivers to one session
SleepStep == 20         \* seconds the clock advances per wait-loop iteration
MaxOthers == 10         \* further requests in flight, counted only (SpecPool)
MaxDuration == 120      \* longest audio, in seconds, the timeout is computed for

\* ------------------------------------------------------ program constants
PoolCapacity == 10      \* ThreadPoolExecutor(max_workers=10)
TimeoutGrace == 10      \* max(duration + 10, 60)
TimeoutFloor == 60      \* max(duration + 10, 60)
MaxAttempts == 3        \* for attempt in range(3)

Requests == {1, 2}          \* the requests modelled in detail
None == "None"
NoPath == <<>>

\* values the inputs are drawn from
KeyValues == {None, "your_azure_key_here", "k3y"}
Endpoints == {"transcribe", "timestamps"}
Filenames == {"", "a.mp3"}
Durations == {5, 70}
Texts == {"hello", "world"}
ErrorDetails == {"E401", "E503"}
RequestIds == {"id1", "id2"}
Tokens == {1, 2}            \* the random part of a temp file name

\* the multipart form of a request: with the audio part, without it, or one
\* werkzeug fails to parse when request.files is read
NoUpload == [endpoint |-> "transcribe", form |-> None, filename |-> None]
Uploads ==
    {[endpoint |-> ep, form |-> fm, filename |-> None] :
        ep \in Endpoints, fm \in {"nopart", "malformed"}}
    \cup {[endpoint |-> ep, form |-> "audio", filename |-> fn] :
        ep \in Endpoints, fn \in Filenames}

VARIABLES
    AZURE_SPEECH_KEY,   \* module global: the configured key, None when unset
    converter,          \* AudioSegment.converter: TRUE when which("ffmpeg") found one
    disk,               \* the temp directory: a set of [path, owner]
    others,             \* handler threads in flight that are only counted
    pc,                 \* each request's position in its handler
    upload,             \* each request's inputs: endpoint, form kind, filename
    request_id,
    temp_input_path,    \* convert_to_wav's local
    temp_filename,      \* the handler's local
    duration,
    all_results,
    all_segments,
    done,
    error_occurred,
    error_details,
    cb,                 \* position of the engine thread inside handle_canceled
    cbEvt,              \* the error_details of the event handle_canceled is handling
    elapsed,            \* time.time() - start_time
    attempt,            \* safe_delete_file's loop variable
    ret,                \* which call of safe_delete_file is running
    exc,                \* str(e) of the exception the except clause caught
    response,           \* what the handler returned
    \* history variables, read by the properties only
    canceled,           \* the reason of the canceled event delivered, None before it
    errSeen,            \* the error_details that event carried
    finals,             \* texts of the recognized-speech final events delivered
    timedOut,           \* the wait loop ended by its timeout
    segsAtStop,         \* all_results when stop_continuous_recognition returned
    written,            \* how many temp files the request has created
    stops,              \* calls of stop_continuous_recognition
    delRet,             \* what the last call of safe_delete_file returned, as a string
    detailed,           \* texts of the finals whose detailed JSON had an NBest entry
    foreign             \* a request touched a file another request owns

vars == <<AZURE_SPEECH_KEY, converter, disk, others, pc, upload, request_id,
          temp_input_path, temp_filename, duration, all_results, all_segments,
          done, error_occurred, error_details, cb, cbEvt, elapsed, attempt,
          ret, exc, response, canceled, errSeen, finals, timedOut, segsAtStop, written,
          stops, delRet, detailed, foreign>>

globals == <<AZURE_SPEECH_KEY, converter>>
session == <<all_results, all_segments, done, error_occurred, error_details,
             cb, cbEvt>>
history == <<canceled, errSeen, finals, timedOut, segsAtStop, written, stops,
             delRet, detailed>>

\* ------------------------------------------------------------- responses
NoResponse == [status |-> 0, body |-> [none |-> None]]

RespKeyMissing ==
    [status |-> 500, body |-> [error |-> "Azure Speech API key not configured"]]

RespNoAudio ==
    [status |-> 400, body |-> [error |-> "No audio file provided"]]

RespEmptyFilename ==
    [status |-> 400, body |-> [error |-> "Empty filename"]]

RespConversionFailed(rid, conv_error) ==
    [status |-> 400,
     body |-> [success |-> FALSE,
               error |-> "Audio format conversion failed: " \o conv_error,
               request_id |-> rid]]

RespRecognitionError(rid, details) ==
    [status |-> 500,
     body |-> [success |-> FALSE,
               error |-> "Recognition error: " \o details,
               request_id |-> rid]]

RECURSIVE JoinFrom(_, _)
JoinFrom(acc, rest) ==
    IF rest = <<>> THEN acc
    ELSE JoinFrom(acc \o " " \o Head(rest), Tail(rest))

\* " ".join(all_results)
Join(texts) ==
    IF texts = <<>> THEN "" ELSE JoinFrom(Head(texts), Tail(texts))

RespSuccess(ep, rid, results, segments, dur) ==
    [status |-> 200,
     body |-> IF ep = "timestamps"
              THEN [success |-> TRUE, text |-> Join(results), duration |-> dur,
                    segments |-> segments, request_id |-> rid]
              ELSE [success |-> TRUE, text |-> Join(results), duration |-> dur,
                    request_id |-> rid]]

RespNoSpeech(ep, rid) ==
    [status |-> 400,
     body |-> [success |-> FALSE,
               error |-> IF ep = "timestamps" THEN "Recognition failed"
                         ELSE "No speech could be recognized",
               request_id |-> rid]]

RespUnexpected(rid, e) ==
    [status |-> 500,
     body |-> [success |-> FALSE, error |-> e, request_id |-> rid]]

\* ------------------------------------------------------------ temp files
\* a temp file named after the upload alone: no request id, no random part
TempFileNamedByUpload(kind, rid, suffix, files) == {<<kind, "upload", 1, suffix>>}

\* tempfile.NamedTemporaryFile(delete=False, suffix=..., prefix=f'{kind}_{rid}_'):
\* the names it may return, none of them a file that exists
NamedTemporaryFile(kind, rid, suffix, files) ==
    {p \in {<<kind, rid, t, suffix>> : t \in Tokens} :
        \A f \in files : f.path # p}

\* os.path.splitext(filename)[1]
SplitExt(filename) == IF filename = "a.mp3" THEN ".mp3" ELSE ""

Exists(p, files) == \E f \in files : f.path = p

OwnedByOther(p, r, files) == \E f \in files : f.path = p /\ f.owner # r

\* a write of path p by request r
WriteFile(p, r, files) == {f \in files : f.path # p} \cup {[path |-> p, owner |-> r]}

Unlink(p, files) == {f \in files : f.path # p}

\* ------------------------------------------------------------------ Init
Init ==
    /\ AZURE_SPEECH_KEY \in KeyValues
    /\ converter \in BOOLEAN
    /\ disk = {}
    /\ others = 0
    /\ pc = [r \in Requests |-> "idle"]
    /\ upload = [r \in Requests |-> NoUpload]
    /\ request_id = [r \in Requests |-> None]
    /\ temp_input_path = [r \in Requests |-> NoPath]
    /\ temp_filename = [r \in Requests |-> NoPath]
    /\ duration = [r \in Requests |-> 0]
    /\ all_results = [r \in Requests |-> <<>>]
    /\ all_segments = [r \in Requests |-> <<>>]
    /\ done = [r \in Requests |-> FALSE]
    /\ error_occurred = [r \in Requests |-> FALSE]
    /\ error_details = [r \in Requests |-> None]
    /\ cb = [r \in Requests |-> "idle"]
    /\ cbEvt = [r \in Requests |-> None]
    /\ elapsed = [r \in Requests |-> 0]
    /\ attempt = [r \in Requests |-> 0]
    /\ ret = [r \in Requests |-> None]
    /\ exc = [r \in Requests |-> None]
    /\ response = [r \in Requests |-> NoResponse]
    /\ canceled = [r \in Requests |-> None]
    /\ errSeen = [r \in Requests |-> None]
    /\ finals = [r \in Requests |-> <<>>]
    /\ timedOut = [r \in Requests |-> FALSE]
    /\ segsAtStop = [r \in Requests |-> <<>>]
    /\ written = [r \in Requests |-> 0]
    /\ stops = [r \in Requests |-> 0]
    /\ delRet = [r \in Requests |-> None]
    /\ detailed = [r \in Requests |-> <<>>]
    /\ foreign = FALSE

\* ---------------------------------------------------------------- handler
\* not AZURE_SPEECH_KEY or AZURE_SPEECH_KEY == "your_azure_key_here"
KeyMissing == AZURE_SPEECH_KEY = None \/ AZURE_SPEECH_KEY = "your_azure_key_here"

\* the handler returns resp
Return(r, resp) ==
    /\ response' = [response EXCEPT ![r] = resp]
    /\ pc' = [pc EXCEPT ![r] = "done"]

\* the except clause of the handler: safe_delete_file, then the 500 response
Raise(r, e) ==
    /\ exc' = [exc EXCEPT ![r] = e]
    /\ ret' = [ret EXCEPT ![r] = "except"]
    /\ attempt' = [attempt EXCEPT ![r] = 0]
    /\ pc' = [pc EXCEPT ![r] = "delete"]

\* a request arrives on a thread of its own: the id, then the checks before
\* convert_to_wav
ArriveWith(r, ups) ==
    /\ pc[r] = "idle"
    /\ \E up \in ups, rid \in RequestIds :
        /\ upload' = [upload EXCEPT ![r] = up]
        /\ request_id' = [request_id EXCEPT ![r] = rid]
        /\ IF KeyMissing
           THEN Return(r, RespKeyMissing) /\ UNCHANGED <<exc, ret, attempt>>
           ELSE IF up.form = "malformed"
           THEN Raise(r, "BadRequest") /\ UNCHANGED response
           ELSE IF up.form = "nopart"
           THEN Return(r, RespNoAudio) /\ UNCHANGED <<exc, ret, attempt>>
           ELSE IF up.filename = ""
           THEN Return(r, RespEmptyFilename) /\ UNCHANGED <<exc, ret, attempt>>
           ELSE /\ pc' = [pc EXCEPT ![r] = "convert"]
                /\ UNCHANGED <<response, exc, ret, attempt>>
    /\ UNCHANGED <<globals, disk, others, temp_input_path, temp_filename, duration,
                   session, elapsed, history, foreign>>

\* any request
Arrive(r) == ArriveWith(r, Uploads)

\* a request that uploads a.mp3 to /transcribe
ArriveSameName(r) ==
    ArriveWith(r, {[endpoint |-> "transcribe", form |-> "audio", filename |-> "a.mp3"]})

\* convert_to_wav: the input temp file is created and the upload saved to it
ConvSaveInput(r) ==
    /\ pc[r] = "convert"
    /\ \E p \in NamedTemporaryFile("input", request_id[r],
                                    SplitExt(upload[r].filename), disk) :
        /\ disk' = WriteFile(p, r, disk)
        /\ foreign' = (foreign \/ OwnedByOther(p, r, disk))
        /\ temp_input_path' = [temp_input_path EXCEPT ![r] = p]
    /\ written' = [written EXCEPT ![r] = @ + 1]
    /\ pc' = [pc EXCEPT ![r] = "decode"]
    /\ UNCHANGED <<globals, others, upload, request_id, temp_filename, duration,
                   session, elapsed, attempt, ret, exc, response,
                   canceled, errSeen, finals, timedOut, segsAtStop, stops,
                   delRet, detailed>>

\* convert_to_wav: AudioSegment.from_file and the resampling; a failure is
\* re-raised, convert_to_wav's locals are gone and the handler answers 400
ConvDecode(r) ==
    /\ pc[r] = "decode"
    /\ foreign' = (foreign \/ OwnedByOther(temp_input_path[r], r, disk))
    /\ \/ /\ ~converter
          /\ Return(r, RespConversionFailed(request_id[r], "ffmpeg not found"))
          /\ temp_input_path' = [temp_input_path EXCEPT ![r] = NoPath]
          /\ UNCHANGED duration
       \/ /\ converter
          /\ Return(r, RespConversionFailed(request_id[r], "could not decode"))
          /\ temp_input_path' = [temp_input_path EXCEPT ![r] = NoPath]
          /\ UNCHANGED duration
       \/ /\ converter
          /\ \E d \in Durations : duration' = [duration EXCEPT ![r] = d]
          /\ pc' = [pc EXCEPT ![r] = "export"]
          /\ UNCHANGED <<response, temp_input_path>>
    /\ UNCHANGED <<globals, disk, others, upload, request_id,
                   temp_filename, session, elapsed, attempt, ret, exc, history>>

\* convert_to_wav: the WAV is exported to the output temp file, the input temp
\* file is unlinked, and the output path is returned to the handler
ConvExport(r) ==
    /\ pc[r] = "export"
    /\ \E p \in NamedTemporaryFile("output", request_id[r], ".wav", disk) :
        /\ disk' = Unlink(temp_input_path[r], WriteFile(p, r, disk))
        /\ foreign' = (\/ foreign
                       \/ OwnedByOther(p, r, disk)
                       \/ OwnedByOther(temp_input_path[r], r, disk))
        /\ temp_filename' = [temp_filename EXCEPT ![r] = p]
    /\ temp_input_path' = [temp_input_path EXCEPT ![r] = NoPath]
    /\ written' = [written EXCEPT ![r] = @ + 1]
    /\ pc' = [pc EXCEPT ![r] = "setup"]
    /\ UNCHANGED <<globals, others, upload, request_id, duration,
                   session, elapsed, attempt, ret, exc, response,
                   canceled, errSeen, finals, timedOut, segsAtStop, stops,
                   delRet, detailed>>

\* the SpeechConfig, AudioConfig and SpeechRecognizer are built, the callbacks
\* connected and continuous recognition started; any of the SDK calls may raise
Setup(r) ==
    /\ pc[r] = "setup"
    /\ \/ /\ Raise(r, "SDK error")
          /\ UNCHANGED <<session, elapsed, foreign>>
       \/ /\ foreign' = (foreign \/ OwnedByOther(temp_filename[r], r, disk))
          /\ all_results' = [all_results EXCEPT ![r] = <<>>]
          /\ all_segments' = [all_segments EXCEPT ![r] = <<>>]
          /\ done' = [done EXCEPT ![r] = FALSE]
          /\ error_occurred' = [error_occurred EXCEPT ![r] = FALSE]
          /\ error_details' = [error_details EXCEPT ![r] = None]
          /\ elapsed' = [elapsed EXCEPT ![r] = 0]
          /\ pc' = [pc EXCEPT ![r] = "wait"]
          /\ UNCHANGED <<cb, cbEvt, attempt, ret, exc>>
    /\ UNCHANGED <<globals, disk, others, upload, request_id, temp_input_path,
                   temp_filename, duration, response, history>>

\* timeout = max(duration + 10, 60)
Max(a, b) == IF a > b THEN a ELSE b

\* a timeout of 60 seconds whatever the duration
TimeoutFixed(dur) == TimeoutFloor

Timeout(dur) == Max(dur + TimeoutGrace, TimeoutFloor)

\* the wait loop without its timeout: "while not done: time.sleep(0.1)"
WaitIterationNoTimeout(r) ==
    /\ pc[r] = "wait"
    /\ done[r]
    /\ pc' = [pc EXCEPT ![r] = "stop"]
    /\ UNCHANGED <<globals, disk, others, upload, request_id, temp_input_path,
                   temp_filename, duration, session, elapsed, attempt, ret, exc,
                   response, history, foreign>>

\* the wait loop raising TimeoutError when the time is up, instead of break
WaitIterationTimeoutRaises(r) ==
    /\ pc[r] = "wait"
    /\ IF done[r]
       THEN /\ pc' = [pc EXCEPT ![r] = "stop"]
            /\ UNCHANGED <<elapsed, timedOut, exc, ret, attempt>>
       ELSE /\ elapsed' = [elapsed EXCEPT ![r] = @ + SleepStep]
            /\ IF elapsed'[r] > Timeout(duration[r])
               THEN /\ Raise(r, "TimeoutError")
                    /\ timedOut' = [timedOut EXCEPT ![r] = TRUE]
               ELSE UNCHANGED <<pc, timedOut, exc, ret, attempt>>
    /\ UNCHANGED <<globals, disk, others, upload, request_id, temp_input_path,
                   temp_filename, duration, session, response,
                   canceled, errSeen, finals, segsAtStop, written, stops, delRet,
                   detailed, foreign>>

\* one iteration of "while not done": the test of done, the sleep, the test of
\* the elapsed time
WaitIteration(r) ==
    /\ pc[r] = "wait"
    /\ IF done[r]
       THEN /\ pc' = [pc EXCEPT ![r] = "stop"]
            /\ UNCHANGED <<elapsed, timedOut>>
       ELSE /\ elapsed' = [elapsed EXCEPT ![r] = @ + SleepStep]
            /\ IF elapsed'[r] > Timeout(duration[r])
               THEN /\ pc' = [pc EXCEPT ![r] = "stop"]
                    /\ timedOut' = [timedOut EXCEPT ![r] = TRUE]
               ELSE UNCHANGED <<pc, timedOut>>
    /\ UNCHANGED <<globals, disk, others, upload, request_id, temp_input_path,
                   temp_filename, duration, session, attempt, ret, exc, response,
                   canceled, errSeen, finals, segsAtStop, written, stops, delRet,
                   detailed, foreign>>

\* stop_continuous_recognition called only when the wait ended by its timeout
StopOnlyAfterTimeout(r) ==
    /\ pc[r] = "stop"
    /\ segsAtStop' = [segsAtStop EXCEPT ![r] = all_results[r]]
    /\ ret' = [ret EXCEPT ![r] = IF error_occurred[r] THEN "error" ELSE "normal"]
    /\ attempt' = [attempt EXCEPT ![r] = 0]
    /\ stops' = [stops EXCEPT ![r] = IF timedOut[r] THEN @ + 1 ELSE @]
    /\ pc' = [pc EXCEPT ![r] = "delete"]
    /\ UNCHANGED <<globals, disk, others, upload, request_id, temp_input_path,
                   temp_filename, duration, session, elapsed, exc, response,
                   canceled, errSeen, finals, timedOut, written, delRet, detailed,
                   foreign>>

\* stop_continuous_recognition, then the test of error_occurred that selects
\* the call of safe_delete_file
Stop(r) ==
    /\ pc[r] = "stop"
    /\ segsAtStop' = [segsAtStop EXCEPT ![r] = all_results[r]]
    /\ ret' = [ret EXCEPT ![r] = IF error_occurred[r] THEN "error" ELSE "normal"]
    /\ attempt' = [attempt EXCEPT ![r] = 0]
    /\ stops' = [stops EXCEPT ![r] = @ + 1]
    /\ pc' = [pc EXCEPT ![r] = "delete"]
    /\ UNCHANGED <<globals, disk, others, upload, request_id, temp_input_path,
                   temp_filename, duration, session, elapsed, exc, response,
                   canceled, errSeen, finals, timedOut, written, delRet, detailed,
                   foreign>>

\* the return statements with an empty all_results answered as a server error
AfterDeleteEmptyIsError(r) ==
    CASE ret[r] = "error" ->
            RespRecognitionError(request_id[r], error_details[r])
      [] ret[r] = "normal" ->
            IF all_results[r] # <<>>
            THEN RespSuccess(upload[r].endpoint, request_id[r], all_results[r],
                             all_segments[r], duration[r])
            ELSE RespUnexpected(request_id[r], "No speech could be recognized")
      [] OTHER -> RespUnexpected(request_id[r], exc[r])

\* the return statement that follows the call of safe_delete_file
AfterDelete(r) ==
    CASE ret[r] = "error" ->
            RespRecognitionError(request_id[r], error_details[r])
      [] ret[r] = "normal" ->
            IF all_results[r] # <<>>
            THEN RespSuccess(upload[r].endpoint, request_id[r], all_results[r],
                             all_segments[r], duration[r])
            ELSE RespNoSpeech(upload[r].endpoint, request_id[r])
      [] OTHER -> RespUnexpected(request_id[r], exc[r])

\* safe_delete_file without the retry: False at the first PermissionError
SafeDeleteAttemptOnce(r) ==
    /\ pc[r] = "delete"
    /\ IF temp_filename[r] = NoPath \/ ~Exists(temp_filename[r], disk)
       THEN /\ delRet' = [delRet EXCEPT ![r] = "True"]
            /\ Return(r, AfterDelete(r))
            /\ UNCHANGED <<disk, attempt, foreign>>
       ELSE \/ /\ disk' = Unlink(temp_filename[r], disk)
               /\ foreign' = (foreign \/ OwnedByOther(temp_filename[r], r, disk))
               /\ delRet' = [delRet EXCEPT ![r] = "True"]
               /\ Return(r, AfterDelete(r))
               /\ UNCHANGED attempt
            \/ /\ delRet' = [delRet EXCEPT ![r] = "False"]
               /\ Return(r, AfterDelete(r))
               /\ UNCHANGED <<disk, attempt, foreign>>
    /\ UNCHANGED <<globals, others, upload, request_id, temp_input_path,
                   temp_filename, duration, session, elapsed, ret, exc,
                   canceled, errSeen, finals, timedOut, segsAtStop, written, stops,
                   detailed>>

\* safe_delete_file: the test of the path, then one attempt of the loop; the
\* file may be locked (PermissionError).  When the function returns, the
\* handler returns its response.
SafeDeleteAttempt(r) ==
    /\ pc[r] = "delete"
    /\ IF temp_filename[r] = NoPath \/ ~Exists(temp_filename[r], disk)
       THEN /\ delRet' = [delRet EXCEPT ![r] = "True"]
            /\ Return(r, AfterDelete(r))
            /\ UNCHANGED <<disk, attempt, foreign>>
       ELSE \/ /\ disk' = Unlink(temp_filename[r], disk)
               /\ foreign' = (foreign \/ OwnedByOther(temp_filename[r], r, disk))
               /\ delRet' = [delRet EXCEPT ![r] = "True"]
               /\ Return(r, AfterDelete(r))
               /\ UNCHANGED attempt
            \/ /\ attempt[r] < MaxAttempts - 1
               /\ attempt' = [attempt EXCEPT ![r] = @ + 1]
               /\ UNCHANGED <<disk, foreign, pc, response, delRet>>
            \/ /\ attempt[r] >= MaxAttempts - 1
               /\ delRet' = [delRet EXCEPT ![r] = "False"]
               /\ Return(r, AfterDelete(r))
               /\ UNCHANGED <<disk, attempt, foreign>>
    /\ UNCHANGED <<globals, others, upload, request_id, temp_input_path,
                   temp_filename, duration, session, elapsed, ret, exc,
                   canceled, errSeen, finals, timedOut, segsAtStop, written, stops,
                   detailed>>

\* what Flask answers when an exception leaves the view function
RespUnhandled == [status |-> 500, body |-> [html |-> "Internal Server Error"]]

\* safe_delete_file: os.unlink raises an OSError that is not a PermissionError
\* and "except PermissionError" does not catch it.  Raised under the call in
\* the try block, it reaches the handler's except clause, which calls
\* safe_delete_file again; raised under that call, it leaves the handler.
UnlinkRaises(r) ==
    /\ pc[r] = "delete"
    /\ temp_filename[r] # NoPath /\ Exists(temp_filename[r], disk)
    /\ foreign' = (foreign \/ OwnedByOther(temp_filename[r], r, disk))
    /\ delRet' = [delRet EXCEPT ![r] = None]
    /\ IF ret[r] \in {"error", "normal"}
       THEN Raise(r, "OSError") /\ UNCHANGED response
       ELSE Return(r, RespUnhandled) /\ UNCHANGED <<exc, ret, attempt>>
    /\ UNCHANGED <<globals, disk, others, upload, request_id, temp_input_path,
                   temp_filename, duration, session, elapsed,
                   canceled, errSeen, finals, timedOut, segsAtStop, written, stops,
                   detailed>>

\* ----------------------------------------------------------------- engine
\* the recognizer delivers events between start_continuous_recognition and the
\* return of stop_continuous_recognition, one callback at a time
Active(r) == pc[r] \in {"wait", "stop"} /\ cb[r] = "idle"

\* handle_recognizing: all_results after a partial result
handle_recognizing(results, text) == results

\* handle_final_result without the test of the result's reason
handle_final_result_any_reason(results, reason, text) == Append(results, text)

\* handle_final_result: all_results after a final result
handle_final_result(results, reason, text) ==
    IF reason = "RecognizedSpeech" THEN Append(results, text) ELSE results

\* all_segments with the newest detail object put first
handle_final_segments_newest_first(segments, reason, text, nbest) ==
    IF reason = "RecognizedSpeech" /\ nbest THEN <<<<"NBest0", text>>>> \o segments
    ELSE segments

\* handle_final_result of transcribe_with_timestamps: all_segments after a
\* final result whose detailed JSON has, or has not, a non-empty NBest
handle_final_segments(segments, reason, text, nbest) ==
    IF reason = "RecognizedSpeech" /\ nbest THEN Append(segments, <<"NBest0", text>>)
    ELSE segments

\* the recognizing event; only transcribe_audio connects a callback to it
EvRecognizing(r) ==
    /\ Active(r)
    /\ upload[r].endpoint = "transcribe"
    /\ Len(all_results[r]) <= MaxSegments
    /\ \E text \in Texts :
        all_results' = [all_results EXCEPT ![r] = handle_recognizing(@, text)]
    /\ UNCHANGED <<globals, disk, others, pc, upload, request_id, temp_input_path,
                   temp_filename, duration, all_segments, done, error_occurred,
                   error_details, cb, cbEvt, elapsed, attempt, ret, exc, response,
                   history, foreign>>

\* the recognized event with all_results a module-level list that every
\* request's callback appends to
EvRecognizedSharedList(r) ==
    /\ Active(r)
    /\ Len(all_results[r]) <= MaxSegments
    /\ foreign' = (foreign \/ OwnedByOther(temp_filename[r], r, disk))
    /\ \E reason \in {"RecognizedSpeech", "NoMatch"}, text \in Texts, nbest \in BOOLEAN :
        /\ reason = "RecognizedSpeech" => Len(finals[r]) < MaxSegments
        /\ upload[r].endpoint = "transcribe" => nbest
        /\ all_results' = [q \in Requests |->
                handle_final_result(all_results[q], reason, text)]
        /\ all_segments' = [all_segments EXCEPT ![r] =
                IF upload[r].endpoint = "timestamps"
                THEN handle_final_segments(@, reason, text, nbest) ELSE @]
        /\ finals' = [finals EXCEPT ![r] =
                IF reason = "RecognizedSpeech" THEN Append(@, text) ELSE @]
        /\ detailed' = [detailed EXCEPT ![r] =
                IF reason = "RecognizedSpeech" /\ nbest THEN Append(@, text) ELSE @]
    /\ UNCHANGED <<globals, disk, others, pc, upload, request_id, temp_input_path,
                   temp_filename, duration, done, error_occurred, error_details,
                   cb, cbEvt, elapsed, attempt, ret, exc, response,
                   canceled, errSeen, timedOut, segsAtStop, written, stops, delRet>>

\* the recognized event
EvRecognized(r) ==
    /\ Active(r)
    /\ Len(all_results[r]) <= MaxSegments
    /\ foreign' = (foreign \/ OwnedByOther(temp_filename[r], r, disk))
    /\ \E reason \in {"RecognizedSpeech", "NoMatch"}, text \in Texts, nbest \in BOOLEAN :
        /\ reason = "RecognizedSpeech" => Len(finals[r]) < MaxSegments
        /\ upload[r].endpoint = "transcribe" => nbest
        /\ all_results' = [all_results EXCEPT ![r] = handle_final_result(@, reason, text)]
        /\ all_segments' = [all_segments EXCEPT ![r] =
                IF upload[r].endpoint = "timestamps"
                THEN handle_final_segments(@, reason, text, nbest) ELSE @]
        /\ finals' = [finals EXCEPT ![r] =
                IF reason = "RecognizedSpeech" THEN Append(@, text) ELSE @]
        /\ detailed' = [detailed EXCEPT ![r] =
                IF reason = "RecognizedSpeech" /\ nbest THEN Append(@, text) ELSE @]
    /\ UNCHANGED <<globals, disk, others, pc, upload, request_id, temp_input_path,
                   temp_filename, duration, done, error_occurred, error_details,
                   cb, cbEvt, elapsed, attempt, ret, exc, response,
                   canceled, errSeen, timedOut, segsAtStop, written, stops, delRet>>

\* the canceled event, delivered at most once to a session: handle_canceled
\* starts; on an error its first assignment sets error_occurred
EvCanceled(r) ==
    /\ Active(r)
    /\ canceled[r] = None
    /\ \/ /\ \E d \in ErrorDetails :
               /\ cbEvt' = [cbEvt EXCEPT ![r] = d]
               /\ errSeen' = [errSeen EXCEPT ![r] = d]
          /\ canceled' = [canceled EXCEPT ![r] = "Error"]
          /\ error_occurred' = [error_occurred EXCEPT ![r] = TRUE]
          /\ cb' = [cb EXCEPT ![r] = "details"]
       \/ /\ canceled' = [canceled EXCEPT ![r] = "EndOfStream"]
          /\ cb' = [cb EXCEPT ![r] = "done"]
          /\ UNCHANGED <<cbEvt, errSeen, error_occurred>>
    /\ UNCHANGED <<globals, disk, others, pc, upload, request_id, temp_input_path,
                   temp_filename, duration, all_results, all_segments, done,
                   error_details, elapsed, attempt, ret, exc, response,
                   finals, timedOut, segsAtStop, written, stops, delRet, detailed,
                   foreign>>

\* handle_canceled: error_details = evt.error_details
CanceledSetDetails(r) ==
    /\ cb[r] = "details"
    /\ error_details' = [error_details EXCEPT ![r] = cbEvt[r]]
    /\ cb' = [cb EXCEPT ![r] = "done"]
    /\ UNCHANGED <<globals, disk, others, pc, upload, request_id, temp_input_path,
                   temp_filename, duration, all_results, all_segments, done,
                   error_occurred, cbEvt, elapsed, attempt, ret, exc, response,
                   history, foreign>>

\* handle_canceled: done = True
CanceledSetDone(r) ==
    /\ cb[r] = "done"
    /\ done' = [done EXCEPT ![r] = TRUE]
    /\ cb' = [cb EXCEPT ![r] = "idle"]
    /\ UNCHANGED <<globals, disk, others, pc, upload, request_id, temp_input_path,
                   temp_filename, duration, all_results, all_segments,
                   error_occurred, error_details, cbEvt, elapsed, attempt, ret,
                   exc, response, history, foreign>>

\* the session_stopped event: stop_continuous
EvSessionStopped(r) ==
    /\ Active(r)
    /\ done' = [done EXCEPT ![r] = TRUE]
    /\ UNCHANGED <<globals, disk, others, pc, upload, request_id, temp_input_path,
                   temp_filename, duration, all_results, all_segments,
                   error_occurred, error_details, cb, cbEvt, elapsed, attempt, ret,
                   exc, response, history, foreign>>

\* ------------------------------------------------------------------- Next
HandlerStep(r) ==
    \/ ConvSaveInput(r)
    \/ ConvDecode(r)
    \/ ConvExport(r)
    \/ Setup(r)
    \/ WaitIteration(r)
    \/ Stop(r)
    \/ SafeDeleteAttempt(r)

EngineStep(r) ==
    \/ EvRecognizing(r)
    \/ EvRecognized(r)
    \/ EvCanceled(r)
    \/ CanceledSetDetails(r)
    \/ CanceledSetDone(r)
    \/ EvSessionStopped(r)

\* further requests, each on a thread of its own, enter and leave the handler;
\* nothing admits them through the executor
OtherArrive ==
    /\ others < MaxOthers
    /\ others' = others + 1
    /\ UNCHANGED <<globals, disk, pc, upload, request_id, temp_input_path,
                   temp_filename, duration, session, elapsed, attempt, ret, exc,
                   response, history, foreign>>

OtherFinish ==
    /\ others > 0
    /\ others' = others - 1
    /\ UNCHANGED <<globals, disk, pc, upload, request_id, temp_input_path,
                   temp_filename, duration, session, elapsed, attempt, ret, exc,
                   response, history, foreign>>

\* one request, any input, any engine behaviour
Next == Arrive(1) \/ HandlerStep(1) \/ EngineStep(1)

Spec == Init /\ [][Next]_vars

\* the handler's thread is scheduled fairly; the engine promises nothing
SpecFair == Spec /\ WF_vars(HandlerStep(1))

\* two requests at the same time, both uploading a.mp3; the engine only ends
\* the session
NextFiles ==
    \E r \in Requests : ArriveSameName(r) \/ HandlerStep(r) \/ EvSessionStopped(r)

SpecFiles == Init /\ [][NextFiles]_vars

\* one request in detail among further requests that are counted
NextPool == Next \/ OtherArrive \/ OtherFinish

SpecPool == Init /\ [][NextPool]_vars

\* one request, with deletions that fail in any way
NextUnlink == Next \/ UnlinkRaises(1)

SpecUnlink == Init /\ [][NextUnlink]_vars

\* two requests at the same time with the engine delivering any events to
\* both sessions.  The service is configured, unlink succeeds, and each request
\* has data of its own, so that data of one request showing up in the other
\* is visible: request 1 is id1, its audio says "hello" and its engine error is
\* E401; request 2 is id2, "world" and E503.
OwnId(r) == IF r = 1 THEN "id1" ELSE "id2"
OwnText(r) == IF r = 1 THEN "hello" ELSE "world"
OwnDetail(r) == IF r = 1 THEN "E401" ELSE "E503"

OwnInputs ==
    \A r \in Requests :
        /\ request_id[r] \in {None, OwnId(r)}
        /\ duration[r] \in {0, 5}
        /\ \A p \in {temp_input_path[r], temp_filename[r]} \ {NoPath} : p[3] = 1
        /\ \A i \in DOMAIN finals[r] : finals[r][i] = OwnText(r)
        /\ errSeen[r] \in {None, OwnDetail(r)}
        /\ attempt[r] = 0

InitIso == Init /\ AZURE_SPEECH_KEY = "k3y" /\ converter

NextIso ==
    \E r \in Requests :
        \/ ArriveSameName(r) /\ OwnInputs'
        \/ HandlerStep(r) /\ OwnInputs'
        \/ EngineStep(r) /\ OwnInputs'

SpecIso == InitIso /\ [][NextIso]_vars

\* ------------------------------------------------------------- properties
Responded(r) == pc[r] = "done"

\* the session of r was started and stop_continuous_recognition has returned
SessionEnded(r) == ret[r] \in {"normal", "error"}

\* inside the normalization and recognition pipeline
InPipeline(r) == pc[r] \notin {"idle", "done"}

\* the temp file paths the handler of r holds
PathsOf(r) == {temp_input_path[r], temp_filename[r]} \ {NoPath}

\* texts joined by a single space, from the last one backwards
RECURSIVE SpaceJoined(_)
SpaceJoined(texts) ==
    IF Len(texts) = 0 THEN ""
    ELSE IF Len(texts) = 1 THEN texts[1]
    ELSE SpaceJoined(SubSeq(texts, 1, Len(texts) - 1)) \o " " \o texts[Len(texts)]

HasField(resp, k) == k \in DOMAIN resp.body

\* C1: once a request has its response, whatever the outcome, no temp file
\* created for it (input or canonical WAV) is still on disk.
C1_NoArtifactAfterResponse ==
    \A r \in Requests : Responded(r) => ~(\E f \in disk : f.owner = r)

\* C2: every request that has arrived eventually gets its response, whatever
\* the engine does: the completion wait ends by the flag or by the timeout,
\* the session is stopped and the handler returns.
C2_EveryRequestAnswered ==
    \A r \in Requests : (pc[r] # "idle") ~> (Responded(r))

\* C2's case: the engine never ended the session, the wait ended by its
\* timeout, the session was stopped and the response returned.
C2_Witness ==
    /\ Responded(1) /\ timedOut[1] /\ SessionEnded(1)
    /\ ~done[1] /\ canceled[1] = None

\* C3: when the wait ends by the timeout with the flag unset, and no error
\* cancellation was delivered, the response is not a 500: it is built from
\* the segments aggregated when the session was force-stopped, 200 with their
\* joined text, or the no-speech 400 when there are none.
C3_TimeoutIsBestEffort ==
    \A r \in Requests :
        (Responded(r) /\ timedOut[r] /\ canceled[r] # "Error") =>
            /\ response[r].status # 500
            /\ SessionEnded(r)
            /\ IF segsAtStop[r] = <<>>
               THEN response[r] = RespNoSpeech(upload[r].endpoint, request_id[r])
               ELSE /\ response[r].status = 200
                    /\ response[r].body.text = SpaceJoined(segsAtStop[r])

\* C3's case: a timed-out session answered 200 from one segment.
C3_Witness ==
    /\ Responded(1) /\ timedOut[1] /\ canceled[1] = None /\ ~done[1]
    /\ segsAtStop[1] = <<"hello">> /\ response[1].status = 200

\* C4: when the engine delivered a canceled event with an error reason to the
\* session of a request, the response is {success: false} at 500 and its error
\* field carries the error detail of that event.
C4_ErrorDetailSurfaced ==
    \A r \in Requests :
        (Responded(r) /\ canceled[r] = "Error") =>
            response[r] = RespRecognitionError(request_id[r], errSeen[r])

\* C5: a session that ended (session-stopped, benign cancellation or timeout)
\* without an error cancellation and with no recognized final segment is
\* answered {success: false} at 400, never 500.
C5_NoSpeechIs400 ==
    \A r \in Requests :
        (Responded(r) /\ SessionEnded(r) /\ canceled[r] # "Error"
            /\ finals[r] = <<>>) =>
            /\ response[r].status = 400
            /\ response[r].body.success = FALSE

\* C5's case: the session ended by a benign cancellation with no segment.
C5_Witness ==
    /\ Responded(1) /\ SessionEnded(1) /\ canceled[1] = "EndOfStream"
    /\ ~timedOut[1] /\ finals[1] = <<>> /\ response[1].status = 400

\* C6: the text of a success response is the texts of the recognized-speech
\* final events, in the order the engine delivered them, joined by one space;
\* partial results and no-match finals contribute nothing.
C6_TextIsFinalsJoined ==
    \A r \in Requests :
        (Responded(r) /\ response[r].status = 200) =>
            /\ finals[r] # <<>>
            /\ response[r].body.text = SpaceJoined(finals[r])

\* C6's case: finals "hello" then "world" answered "hello world".
C6_Witness ==
    /\ Responded(1) /\ response[1].status = 200
    /\ finals[1] = <<"hello", "world">>
    /\ response[1].body.text = "hello world"

\* C7: every response, on every exit path, carries the request identifier
\* generated for the request.
C7_ResponseCarriesRequestId ==
    \A r \in Requests :
        Responded(r) =>
            /\ HasField(response[r], "request_id")
            /\ response[r].body.request_id = request_id[r]

\* C8: at every moment at most PoolCapacity (10) requests are inside the
\* normalization and recognition pipeline.
C8_AtMostPoolCapacity ==
    Cardinality({r \in Requests : InPipeline(r)}) + others <= PoolCapacity

\* C9: two requests in flight at the same time, also with the same upload
\* filename, hold disjoint temp file paths, and no request writes, reads or
\* deletes a file that belongs to another request.
C9_ArtifactsDisjoint ==
    /\ ~foreign
    /\ \A r1, r2 \in Requests :
        (r1 # r2 /\ InPipeline(r1) /\ InPipeline(r2)) =>
            PathsOf(r1) \cap PathsOf(r2) = {}
    /\ \A r \in Requests :
        InPipeline(r) => \A p \in PathsOf(r) : ~OwnedByOther(p, r, disk)

\* C9's case: two requests with the same filename and the same request id
\* are both recognizing, each from its own WAV file.
C9_Witness ==
    /\ pc[1] = "wait" /\ pc[2] = "wait"
    /\ upload[1].filename = upload[2].filename
    /\ request_id[1] = request_id[2]
    /\ temp_filename[1] # temp_filename[2]
    /\ Exists(temp_filename[1], disk) /\ Exists(temp_filename[2], disk)

\* the request fails one of the validation or configuration checks
FailsCheck(r) ==
    \/ KeyMissing
    \/ ~converter
    \/ upload[r].form = "nopart"
    \/ upload[r].form = "audio" /\ upload[r].filename = ""

\* C10: a request that fails a validation or configuration check (missing
\* key, unavailable codec, missing audio part, empty filename) is rejected
\* with no temp file written for it.
C10_RejectedBeforeArtifacts ==
    \A r \in Requests : (Responded(r) /\ FailsCheck(r)) => written[r] = 0

\* convert_to_wav raised and the handler answered from its except clause
ConversionFailed(r) ==
    /\ Responded(r)
    /\ HasField(response[r], "error")
    /\ response[r].body.error \in
         {"Audio format conversion failed: " \o c :
             c \in {"ffmpeg not found", "could not decode"}}

\* C11: a normalization failure is answered by its cause: 5xx when the codec
\* is missing, 4xx when the input is unsupported or corrupt, and never the
\* same status class for both.
C11_ConversionFailureByCause ==
    \A r \in Requests :
        ConversionFailed(r) =>
            IF converter
            THEN response[r].status \in 400..499
            ELSE response[r].status \in 500..599

\* C12: a failure to delete the temp file, of any kind, transient or lasting,
\* stays inside safe_delete_file: the handler goes on to the return statement
\* it was heading for, with the status and body of a successful deletion.
C12_DeleteFailureInvisible ==
    [][\A r \in Requests :
          pc[r] = "delete" =>
              /\ ret'[r] = ret[r]
              /\ exc'[r] = exc[r]
              /\ pc'[r] = "done" => response'[r] = AfterDelete(r)]_vars

\* the session state of the spec, read from the closure variables of the
\* callbacks: the completion flag and the error flag
SessionState(r) ==
    IF error_occurred[r] THEN "Errored"
    ELSE IF done[r] THEN "Ended"
    ELSE "Recognizing"

\* C13: terminal session states are final: once the completion flag is set
\* (session-stopped, benign cancellation or error cancellation handled), no
\* later engine event moves the session to another state or changes its error
\* flag or its error detail.
C13_TerminalIsFinal ==
    [][\A r \in Requests :
          (done[r] /\ pc[r] \in {"wait", "stop"}) =>
              /\ SessionState(r)' = SessionState(r)
              /\ error_occurred'[r] = error_occurred[r]
              /\ error_details'[r] = error_details[r]]_vars

\* continuous recognition was started for r
SessionStarted(r) == pc[r] \in {"wait", "stop"} \/ ret[r] \in {"normal", "error"}

\* C14 as stated: the handler calls stop on the engine only when the wait
\* ended by its timeout; when the completion flag ended the wait, no stop is
\* issued.
C14_StopOnlyOnTimeout ==
    \A r \in Requests : stops[r] > 0 => timedOut[r]

\* C14, amended: the handler calls stop on the engine exactly once after the
\* completion wait of every started session, whether the wait ended by the
\* completion flag or by the timeout, and never before the wait has ended.
C14_StopAfterEveryWait ==
    \A r \in Requests :
        /\ SessionStarted(r) =>
              stops[r] = (IF pc[r] \in {"wait", "stop"} THEN 0 ELSE 1)
        /\ ~SessionStarted(r) => stops[r] = 0

\* C14's case: the engine ended the session, the wait ended by the flag and
\* stop was still called before the response.
C14_Witness ==
    /\ Responded(1) /\ done[1] /\ ~timedOut[1] /\ stops[1] = 1
    /\ response[1].status = 200

\* the handler of r has slept since stop_continuous_recognition returned: the
\* only sleep between the stop and the return is the backoff that follows a
\* failed attempt of safe_delete_file
SleptSinceStop(r) == attempt[r] > 0

\* this step is an os.unlink attempt on the WAV of r by the call of
\* safe_delete_file that follows the stop
UnlinkAttemptAfterStop(r) ==
    /\ pc[r] = "delete" /\ ret[r] \in {"normal", "error"}
    /\ temp_filename[r] # NoPath /\ Exists(temp_filename[r], disk)
    /\ pc'[r] = "done" \/ attempt'[r] # attempt[r] \/ ret'[r] # ret[r]

\* C15: after the session is stopped a grace interval elapses before the
\* first attempt to delete the WAV: no unlink attempt is made before the
\* handler has slept since the stop.
C15_GraceBeforeFirstDelete ==
    [][\A r \in Requests : UnlinkAttemptAfterStop(r) => SleptSinceStop(r)]_vars

\* the WAV of r is on disk
WavOnDisk(r) == temp_filename[r] # NoPath /\ Exists(temp_filename[r], disk)

\* C16: safe_delete_file ends after at most 3 attempts on an existing file:
\* it returns True at the first attempt that succeeds, it backs off only after
\* a lock-failed attempt that another attempt follows, it returns False only
\* after 3 lock failures in a row, and for a path that is None or absent it
\* returns True without an attempt.
C16_SafeDeleteBounded ==
    [][\A r \in Requests :
          (pc[r] = "delete" /\ (pc'[r] # pc[r] \/ attempt'[r] # attempt[r])) =>
              /\ attempt[r] \in 0..2
              /\ IF ~WavOnDisk(r)
                 THEN /\ pc'[r] = "done" /\ delRet'[r] = "True"
                      /\ attempt'[r] = attempt[r] /\ disk' = disk
                 ELSE \/ /\ pc'[r] = "done" /\ delRet'[r] = "True"
                         /\ ~WavOnDisk(r)' /\ attempt'[r] = attempt[r]
                      \/ /\ pc'[r] = "delete" /\ delRet'[r] = delRet[r]
                         /\ WavOnDisk(r)'
                         /\ attempt'[r] = attempt[r] + 1 /\ attempt'[r] < 3
                      \/ /\ pc'[r] = "done" /\ delRet'[r] = "False"
                         /\ WavOnDisk(r)'
                         /\ attempt'[r] = attempt[r] /\ attempt[r] = 2]_vars

\* C16's case: three lock failures in a row, False returned, the file left.
C16_Witness ==
    /\ Responded(1) /\ delRet[1] = "False" /\ attempt[1] = 2 /\ WavOnDisk(1)

\* the bound of the completion wait as the spec states it: 60 seconds for
\* audio of up to 50 seconds, the duration plus 10 seconds above
WaitBound(dur) == IF dur <= 50 THEN 60 ELSE dur + 10

\* C17: the completion wait lasts until the flag is set or the elapsed time
\* exceeds max(duration + 10, 60): the loop is still waiting only while the
\* elapsed time is within the bound, and it ends by the timeout only once the
\* elapsed time exceeds the bound, so that no session is force-stopped
\* earlier.
C17_WaitBound ==
    /\ \A d \in 0..MaxDuration : Timeout(d) = WaitBound(d)
    /\ \A r \in Requests :
          /\ pc[r] = "wait" => elapsed[r] <= WaitBound(duration[r])
          /\ timedOut[r] =>
                /\ elapsed[r] > WaitBound(duration[r])
                /\ elapsed[r] - SleepStep <= WaitBound(duration[r])
          /\ (pc[r] = "stop" /\ ~timedOut[r]) => done[r]

\* C17's case: 70 seconds of audio, the flag never set, the session stopped
\* after more than 80 seconds.
C17_Witness ==
    /\ stops[1] = 1 /\ timedOut[1] /\ ~done[1] /\ duration[1] = 70
    /\ elapsed[1] > 80

\* the session state the callbacks of r write
SessionOf(r) ==
    <<all_results[r], all_segments[r], done[r], error_occurred[r], error_details[r]>>

\* the session state of r comes from the events delivered to r
OwnSession(r) ==
    /\ all_results[r] = finals[r]
    /\ error_occurred[r] <=> canceled[r] = "Error"
    /\ error_details[r] \in {None, errSeen[r]}

\* the response of r comes from the events delivered to r
OwnResponse(r) ==
    (Responded(r) /\ SessionEnded(r)) =>
        /\ response[r].body.request_id = request_id[r]
        /\ response[r].status = 200 =>
              /\ finals[r] # <<>>
              /\ response[r].body.text = SpaceJoined(finals[r])
        /\ response[r].status = 400 => finals[r] = <<>>
        /\ response[r].status = 500 =>
              /\ canceled[r] = "Error"
              /\ response[r].body.error \in
                   {"Recognition error: " \o d : d \in {None, errSeen[r]}}

\* C18: session state is isolated per request: under any interleaving of two
\* requests and of the engine's callbacks, a step that changes the segment
\* sequence, the completion flag, the error flag or the error detail of one
\* request changes none of them for the other request, every session holds
\* what its own events put there, and every response is determined by the
\* events of its own session.
C18_SessionsIsolated ==
    [][/\ \A r1, r2 \in Requests :
            (r1 # r2 /\ SessionOf(r1)' # SessionOf(r1)) =>
                SessionOf(r2)' = SessionOf(r2)
       /\ \A r \in Requests : OwnSession(r)' /\ OwnResponse(r)']_vars

\* C18's case: two sessions recognizing at the same time, each with events of
\* its own delivered: request 1 a final segment and session-stopped, request
\* 2 a final segment and an error cancellation.
C18_Witness ==
    /\ pc[1] = "wait" /\ pc[2] = "wait"
    /\ finals[1] = <<"hello">> /\ done[1] /\ ~error_occurred[1]
    /\ finals[2] = <<"world">> /\ error_details[2] = "E503" /\ done[2]
    /\ all_results[1] = <<"hello">> /\ all_results[2] = <<"world">>

\* the status and the text of a response
StatusAndText(resp) ==
    <<resp.status, IF HasField(resp, "text") THEN resp.body.text ELSE None>>

\* the status and text /transcribe answers with, from the inputs of r, the
\* failures r met and the events delivered to its session; the endpoint is
\* not among them
TranscribeOutcome(r) ==
    IF SessionEnded(r)
    THEN IF canceled[r] = "Error" THEN <<500, None>>
         ELSE IF finals[r] = <<>> THEN <<400, None>>
         ELSE <<200, SpaceJoined(finals[r])>>
    ELSE IF KeyMissing THEN <<500, None>>
    ELSE IF ret[r] = "except" THEN <<500, None>>
    ELSE <<400, None>>

\* the detail objects of the given texts
RECURSIVE DetailsOf(_)
DetailsOf(texts) ==
    IF texts = <<>> THEN <<>>
    ELSE <<<<"NBest0", Head(texts)>>>> \o DetailsOf(Tail(texts))

\* a success response of /transcribe-with-timestamps
TimestampsSuccess(r) ==
    Responded(r) /\ upload[r].endpoint = "timestamps" /\ response[r].status = 200

\* C19 as stated: /transcribe-with-timestamps answers with the status and the
\* text /transcribe gives for the same inputs and events, and on success its
\* segments list holds one detail object per aggregated final segment, in the
\* same order.
C19_TimestampsAddsSegments ==
    \A r \in Requests :
        /\ Responded(r) => StatusAndText(response[r]) = TranscribeOutcome(r)
        /\ TimestampsSuccess(r) =>
              /\ HasField(response[r], "segments")
              /\ response[r].body.segments = DetailsOf(finals[r])

\* C19, amended: the same status and text, and on success a segments list
\* that holds one detail object per aggregated final segment whose detailed
\* result carried a non-empty NBest list, in the same order; a final segment
\* without one is in the text and not in segments.
C19_SegmentsOfDetailedFinals ==
    \A r \in Requests :
        /\ Responded(r) => StatusAndText(response[r]) = TranscribeOutcome(r)
        /\ TimestampsSuccess(r) =>
              /\ HasField(response[r], "segments")
              /\ response[r].body.segments = DetailsOf(detailed[r])
              /\ Len(response[r].body.segments) <= Len(finals[r])
        /\ (Responded(r) /\ upload[r].endpoint = "transcribe") =>
              ~HasField(response[r], "segments")

\* C19's case: two final segments, the first without an NBest list: both are
\* in the text, one detail object is in segments.
C19_Witness ==
    /\ TimestampsSuccess(1)
    /\ finals[1] = <<"hello", "world">>
    /\ response[1].body.text = "hello world"
    /\ response[1].body.segments = <<<<"NBest0", "world">>>>

\* the handler of r answered from its recognition-error branch
TookErrorBranch(r) == Responded(r) /\ ret[r] = "error"

\* C20: the error flag and the error detail are observed consistently: under
\* any interleaving of handle_canceled with the handler's wait loop, timeout
\* exit and error check, a handler that takes the recognition-error branch
\* reports the error detail of the engine's event, never the initial value of
\* error_details.
C20_ErrorBranchHasEngineDetail ==
    \A r \in Requests :
        TookErrorBranch(r) =>
            /\ errSeen[r] \in ErrorDetails
            /\ response[r].body.error = "Recognition error: " \o errSeen[r]

====
